---- MODULE Spec2Model ----
(***************************************************************************)
(* Model of the TCP side of the tun data plane                             *)
(* (crates/shadowsocks-service/src/local/tun/tcp.rs): one TcpConnection    *)
(* with its TcpSocketControl, the TcpSocketManager task and the smoltcp    *)
(* socket the two exchange bytes with; and of the UDP tunnel               *)
(* (crates/shadowsocks-service/src/local/tunnel/udprelay.rs): the          *)
(* association map, the per-association workers, the cleanup task and the  *)
(* keep-alive handler.                                                     *)
(*                                                                         *)
(* Bytes are modelled as distinct naturals (the k-th byte offered by the   *)
(* user is k, the k-th byte sent by the peer is k), so that reordering,    *)
(* duplication and loss are all visible; UDP payloads likewise (the k-th   *)
(* datagram the front-end receives is k).                                  *)
(*                                                                         *)
(* The two halves share no state: Spec runs the TCP half, UdpSpec the UDP  *)
(* half, each leaving the other half's variables as Init set them.         *)
(***************************************************************************)
EXTENDS Naturals, Sequences, FiniteSets

\* ---------------------------------------------------------------- bounds
\* send_buffer_size / recv_buffer_size of the flow (tcp_opts), scaled down
SendCap == 2
RecvCap == 2
\* number of bytes the user offers to write in total: one more than fits
MaxBytes == SendCap + 1
\* number of bytes the peer sends in total: enough to fill recv_buffer
MaxIn == RecvCap
\* longest destination slice handed to poll_read
MaxReadLen == 2
\* number of distinct wakers user tasks poll with
NumWakers == 2
\* capacity of an association's queue, mpsc::channel(128), scaled down
QueueCap == 2
\* capacity of the keep-alive channel, mpsc::channel(64), scaled down
KeepaliveCap == 1
\* time_to_live of the association map, in clock ticks
TTL == 2
\* number of datagrams the front-end receives from clients in total: one
\* more than an association's queue holds
MaxDatagrams == QueueCap + 1

\* ------------------------------------------------------------- constants
None == 0
Wakers == 1..NumWakers
\* the SocketHandle smoltcp assigns to the connection's socket
H == 1

VARIABLES
    control,            \* TcpSocketControl of the connection
    sockets,            \* TcpSocketManager.sockets (its key set)
    iface_sockets,      \* handles registered in TcpSocketManager.iface
    sock,               \* the smoltcp TcpSocket: state, rx and tx buffer
    notified,           \* manager_notify: the stored permit of tokio Notify
    mgr_pc,             \* position of the manager task
    sockets_to_remove,  \* the manager's Vec of handles scheduled for removal
    closed_seen,        \* control.is_closed as the last iteration found it
    conn,               \* the TcpConnection handle: "none", "open", "dropped"
    rd,                 \* the read operation of the user: state, waker, woken
    wr,                 \* the write/shutdown operation of the user
    event,              \* the last operation and what it returned
    accepted,           \* bytes accepted by poll_write, in order
    handed,             \* bytes the manager handed to socket.send, in order
    taken,              \* bytes the manager took from socket.recv, in order
    returned,           \* bytes returned by poll_read, in order
    in_cnt,             \* number of bytes the peer has sent so far
    tunnel,             \* the UdpTunnel: "none", or its runtime's state
    capacity,           \* capacity the association map was built with
    assoc_map,          \* UdpTunnel.assoc_map: entries, least recent first
    assocs,             \* every UdpAssociation created, by creation number
    keepalive,          \* payloads in the keep-alive channel
    cleanup_timer,      \* ticks the cleanup task has slept
    counts,             \* datagrams received from clients so far
    uevent              \* the last UDP operation and what it returned

tcp_vars == <<control, sockets, iface_sockets, sock, notified, mgr_pc,
              sockets_to_remove, closed_seen, conn, rd, wr, event,
              accepted, handed, taken, returned, in_cnt>>

udp_vars == <<tunnel, capacity, assoc_map, assocs, keepalive, cleanup_timer,
              counts, uevent>>

vars == <<tcp_vars, udp_vars>>

\* --------------------------------------------------------------- helpers
Min(a, b) == IF a < b THEN a ELSE b

Drop(s, n) == SubSeq(s, n + 1, Len(s))

Take(s, n) == SubSeq(s, 1, n)

IsPrefix(s, t) == Len(s) <= Len(t) /\ Take(t, Len(s)) = s

\* ---------------------------------------------------- RingBuffer<u8>
\* enqueue_slice writing the new bytes in front of the buffered ones
enqueue_slice_front(buf, cap, data) == Take(data, Min(Len(data), cap - Len(buf))) \o buf

\* enqueue_slice without the capacity check
enqueue_slice_unbounded(buf, cap, data) == buf \o data

\* RingBuffer::enqueue_slice: appends as many bytes of data as fit
enqueue_slice(buf, cap, data) == buf \o Take(data, Min(Len(data), cap - Len(buf)))

\* number of bytes enqueue_slice reports as enqueued
enqueue_len(buf, cap, data) == Min(Len(data), cap - Len(buf))

\* RingBuffer::dequeue_slice: removes up to n bytes from the front
dequeue_slice(buf, n) == Drop(buf, Min(n, Len(buf)))

\* the bytes dequeue_slice copies out
dequeued(buf, n) == Take(buf, Min(n, Len(buf)))

\* ---------------------------------------------------- TcpSocketControl
NewControl ==
    [send_buffer |-> <<>>, send_waker |-> None,
     recv_buffer |-> <<>>, recv_waker |-> None, is_closed |-> FALSE]

\* Option<Waker>::replace followed by wake() of an old waker that
\* will not wake the same task
StaleWakers(old, w) == IF old # None /\ old # w THEN {old} ELSE {}

IdleOp == [st |-> "idle", waker |-> None, woken |-> FALSE]

\* Waker::wake for every waker in ws: a suspended operation that registered
\* one of them is scheduled for a re-poll
Woken(op, ws) ==
    IF op.st # "idle" /\ op.waker \in ws THEN [op EXCEPT !.woken = TRUE] ELSE op

Ev(op, arg, res, n) == [op |-> op, arg |-> arg, res |-> res, n |-> n]

\* ------------------------------------------------------- TcpConnection
\* AsyncRead::poll_read with waker w and a destination of n bytes
poll_read(c, w, n) ==
    IF c.is_closed
    THEN [ctl |-> c, res |-> "eof", data |-> <<>>, wake |-> {}, notify |-> FALSE]
    ELSE IF c.recv_buffer = <<>>
    THEN [ctl |-> [c EXCEPT !.recv_waker = w], res |-> "pending", data |-> <<>>,
          wake |-> StaleWakers(c.recv_waker, w), notify |-> FALSE]
    ELSE [ctl |-> [c EXCEPT !.recv_buffer = dequeue_slice(c.recv_buffer, n)],
          res |-> "ok", data |-> dequeued(c.recv_buffer, n),
          wake |-> {}, notify |-> TRUE]

\* poll_write without the is_closed check
poll_write_unchecked(c, w, data) ==
    IF Len(c.send_buffer) = SendCap
    THEN [ctl |-> [c EXCEPT !.send_waker = w], res |-> "pending", n |-> 0,
          wake |-> StaleWakers(c.send_waker, w), notify |-> FALSE]
    ELSE [ctl |-> [c EXCEPT !.send_buffer = enqueue_slice(c.send_buffer, SendCap, data)],
          res |-> "ok", n |-> enqueue_len(c.send_buffer, SendCap, data),
          wake |-> {}, notify |-> TRUE]

\* AsyncWrite::poll_write with waker w and source bytes data
poll_write(c, w, data) ==
    IF c.is_closed
    THEN [ctl |-> c, res |-> "broken_pipe", n |-> 0, wake |-> {}, notify |-> FALSE]
    ELSE IF Len(c.send_buffer) = SendCap
    THEN [ctl |-> [c EXCEPT !.send_waker = w], res |-> "pending", n |-> 0,
          wake |-> StaleWakers(c.send_waker, w), notify |-> FALSE]
    ELSE [ctl |-> [c EXCEPT !.send_buffer = enqueue_slice(c.send_buffer, SendCap, data)],
          res |-> "ok", n |-> enqueue_len(c.send_buffer, SendCap, data),
          wake |-> {}, notify |-> TRUE]

\* AsyncWrite::poll_shutdown with waker w
poll_shutdown(c, w) ==
    IF c.is_closed
    THEN [ctl |-> c, res |-> "ok", wake |-> {}]
    ELSE [ctl |-> [c EXCEPT !.is_closed = TRUE, !.send_waker = w],
          res |-> "pending", wake |-> StaleWakers(c.send_waker, w)]

\* a drop that takes the wakers out of their slots as close_socket_control does
drop_control_wake(c) ==
    [c EXCEPT !.is_closed = TRUE, !.send_waker = None, !.recv_waker = None]

\* Drop for TcpConnection
drop_control(c) == [c EXCEPT !.is_closed = TRUE]

\* the bytes the user offers next: k bytes following those already accepted
Payload(k) == [i \in 1..k |-> Len(accepted) + i]

MgrVars == <<sockets, iface_sockets, sock, mgr_pc, sockets_to_remove,
             closed_seen, in_cnt>>

\* a read call of the user task (first poll, re-poll after a wake, or a
\* spurious re-poll)
Read ==
    /\ conn = "open"
    /\ \E w \in Wakers, n \in 1..MaxReadLen :
         LET r == poll_read(control, w, n) IN
           /\ control' = r.ctl
           /\ rd' = IF r.res = "pending"
                    THEN [st |-> "pending", waker |-> w, woken |-> FALSE]
                    ELSE IdleOp
           /\ wr' = Woken(wr, r.wake)
           /\ returned' = returned \o r.data
           /\ notified' = (notified \/ r.notify)
           /\ event' = Ev("read", 0, r.res, Len(r.data))
    /\ UNCHANGED <<MgrVars, conn, accepted, handed, taken>>
    /\ UNCHANGED udp_vars

\* a write call of the user task
Write ==
    /\ conn = "open"
    /\ wr.st # "pending_shutdown"
    /\ \E w \in Wakers, k \in 1..(MaxBytes - Len(accepted)) :
         LET r == poll_write(control, w, Payload(k)) IN
           /\ control' = r.ctl
           /\ wr' = IF wr.st = "shut" THEN wr
                    ELSE IF r.res = "pending"
                    THEN [st |-> "pending_write", waker |-> w, woken |-> FALSE]
                    ELSE IdleOp
           /\ rd' = Woken(rd, r.wake)
           /\ accepted' = accepted \o Take(Payload(k), r.n)
           /\ notified' = (notified \/ r.notify)
           /\ event' = Ev("write", IF r.res = "ok" THEN k ELSE 0, r.res, r.n)
    /\ UNCHANGED <<MgrVars, conn, handed, taken, returned>>
    /\ UNCHANGED udp_vars

\* AsyncWrite::poll_flush
Flush ==
    /\ conn = "open"
    /\ event' = Ev("flush", 0, "ok", 0)
    /\ UNCHANGED <<MgrVars, control, notified, conn, rd, wr,
                   accepted, handed, taken, returned>>
    /\ UNCHANGED udp_vars

\* a shutdown call of the user task
Shutdown ==
    /\ conn = "open"
    /\ \E w \in Wakers :
         LET r == poll_shutdown(control, w) IN
           /\ control' = r.ctl
           /\ wr' = IF r.res = "pending"
                    THEN [st |-> "pending_shutdown", waker |-> w, woken |-> FALSE]
                    ELSE [st |-> "shut", waker |-> None, woken |-> FALSE]
           /\ rd' = Woken(rd, r.wake)
           /\ event' = Ev("shutdown", 0, r.res, 0)
    /\ UNCHANGED <<MgrVars, notified, conn, accepted, handed, taken, returned>>
    /\ UNCHANGED udp_vars

\* the TcpConnection is dropped, with whatever operation was suspended on it
DropConnection ==
    /\ conn = "open"
    /\ conn' = "dropped"
    /\ control' = drop_control(control)
    /\ rd' = IdleOp
    /\ wr' = IF wr.st = "shut" THEN wr ELSE IdleOp
    /\ event' = Ev("drop", 0, "ok", 0)
    /\ UNCHANGED <<MgrVars, notified, accepted, handed, taken, returned>>
    /\ UNCHANGED udp_vars
\* ------------------------------------------------- smoltcp TcpSocket
\* TcpSocket::new(rx of recv_buffer_size, tx of send_buffer_size) + listen
NewSocket == [state |-> "Listen", rx |-> <<>>, tx |-> <<>>]

is_open(s) == s.state # "Closed"

can_recv(s) == s.state # "Listen" /\ s.rx # <<>>

can_send(s) == s.state = "Established" /\ Len(s.tx) < SendCap

\* TcpSocket::close: a listening socket closes at once, an established one
\* sends FIN and waits for the peer
close(s) ==
    [s EXCEPT !.state = IF s.state = "Listen" THEN "Closed"
                        ELSE IF s.state = "Established" THEN "FinSent"
                        ELSE s.state]

\* what one Interface::poll can do to the socket: the handshake completes,
\* the peer resets or the connection times out, the FIN exchange completes,
\* k bytes arrive from the peer, j bytes of tx are transmitted
PollStates(st) ==
    IF st = "Listen" THEN {"Listen", "Established"}
    ELSE IF st = "Established" THEN {"Established", "Closed"}
    ELSE IF st = "FinSent" THEN {"FinSent", "Closed"}
    ELSE {"Closed"}

PollOutcomes(s, cnt) ==
    { [sock |-> [state |-> st,
                 rx |-> s.rx \o [i \in 1..k |-> cnt + i],
                 tx |-> Drop(s.tx, j)],
       cnt |-> cnt + k] :
        st \in PollStates(s.state),
        k \in 0..(IF s.state = "Established"
                  THEN Min(RecvCap - Len(s.rx), MaxIn - cnt) ELSE 0),
        j \in 0..(IF s.state \in {"Established", "FinSent"} THEN Len(s.tx) ELSE 0) }

\* ---------------------------------------------------- manager task
\* close_socket_control assigning false to is_closed
close_socket_control_reopen(c) ==
    [ctl |-> [c EXCEPT !.is_closed = FALSE, !.send_waker = None, !.recv_waker = None],
     wake |-> {c.send_waker, c.recv_waker} \ {None}]

\* close_socket_control that leaves the wakers in their slots
close_socket_control_nowake(c) ==
    [ctl |-> [c EXCEPT !.is_closed = TRUE], wake |-> {}]

\* close_socket_control of the manager loop
close_socket_control(c) ==
    [ctl |-> [c EXCEPT !.is_closed = TRUE, !.send_waker = None, !.recv_waker = None],
     wake |-> {c.send_waker, c.recv_waker} \ {None}]

\* the receive loop: socket.recv into recv_buffer while the socket can
\* receive and recv_buffer is not full; a stack error ends it after m bytes
RecvPump(c, s) ==
    LET avail == IF can_recv(s) THEN Min(Len(s.rx), RecvCap - Len(c.recv_buffer)) ELSE 0
        mk(m, e) ==
            [ctl |-> [c EXCEPT !.recv_buffer =
                          enqueue_slice(c.recv_buffer, RecvCap, Take(s.rx, m))],
             sock |-> [s EXCEPT !.rx =
                          Drop(s.rx, enqueue_len(c.recv_buffer, RecvCap, Take(s.rx, m)))],
             moved |-> Take(s.rx, enqueue_len(c.recv_buffer, RecvCap, Take(s.rx, m))),
             err |-> e]
    IN  {mk(avail, FALSE)} \cup {mk(m, TRUE) : m \in 0..(avail - 1)}

\* the send loop: socket.send out of send_buffer while the socket can send
\* and send_buffer is not empty; a stack error ends it after m bytes
SendPump(c, s) ==
    LET avail == IF can_send(s) THEN Min(Len(c.send_buffer), SendCap - Len(s.tx)) ELSE 0
        mk(m, e) ==
            [ctl |-> [c EXCEPT !.send_buffer = dequeue_slice(c.send_buffer, m)],
             sock |-> [s EXCEPT !.tx = s.tx \o dequeued(c.send_buffer, m)],
             moved |-> dequeued(c.send_buffer, m),
             err |-> e]
    IN  {mk(avail, FALSE)} \cup {mk(m, TRUE) : m \in 0..(avail - 1)}

\* `if has_xxx { if let Some(waker) = slot.take() { waker.wake() } }`
TakeWaker(slot, has) == IF has /\ slot # None THEN {slot} ELSE {}

\* after the receive loop: close on error, wake recv_waker on progress
AfterRecv(r) ==
    LET cl == IF r.err THEN close_socket_control(r.ctl)
              ELSE [ctl |-> r.ctl, wake |-> {}]
        has == r.moved # <<>>
    IN  [ctl |-> [cl.ctl EXCEPT !.recv_waker = IF has THEN None ELSE @],
         wake |-> cl.wake \cup TakeWaker(cl.ctl.recv_waker, has),
         remove |-> IF r.err THEN <<H>> ELSE <<>>]

\* the send loop's epilogue without `if has_sent { wake }`
AfterSend_nowake(r) ==
    LET cl == IF r.err THEN close_socket_control(r.ctl)
              ELSE [ctl |-> r.ctl, wake |-> {}]
    IN  [ctl |-> cl.ctl, wake |-> cl.wake,
         remove |-> IF r.err THEN <<H>> ELSE <<>>]

\* after the send loop: close on error, wake send_waker on progress
AfterSend(r) ==
    LET cl == IF r.err THEN close_socket_control(r.ctl)
              ELSE [ctl |-> r.ctl, wake |-> {}]
        has == r.moved # <<>>
    IN  [ctl |-> [cl.ctl EXCEPT !.send_waker = IF has THEN None ELSE @],
         wake |-> cl.wake \cup TakeWaker(cl.ctl.send_waker, has),
         remove |-> IF r.err THEN <<H>> ELSE <<>>]

\* the closed-socket branch without sockets_to_remove.push
ClosedBranch_noremove(c, s) ==
    LET cl == close_socket_control(c) IN
    [ctl |-> cl.ctl, sock |-> s, wake |-> cl.wake, remove |-> <<>>,
     taken |-> <<>>, handed |-> <<>>, res |-> "closed"]

\* branch `!socket.is_open() || socket.state() == TcpState::Closed`
ClosedBranch(c, s) ==
    LET cl == close_socket_control(c) IN
    [ctl |-> cl.ctl, sock |-> s, wake |-> cl.wake, remove |-> <<H>>,
     taken |-> <<>>, handed |-> <<>>, res |-> "closed"]

\* the is_closed branch with the removal that the source has commented out
CloseBranch_remove(c, s) ==
    LET cl == close_socket_control(c) IN
    [ctl |-> cl.ctl, sock |-> close(s), wake |-> cl.wake, remove |-> <<H>>,
     taken |-> <<>>, handed |-> <<>>, res |-> "close"]

\* the is_closed branch waking the wakers as close_socket_control does
CloseBranch_wake(c, s) ==
    LET cl == close_socket_control(c) IN
    [ctl |-> cl.ctl, sock |-> close(s), wake |-> cl.wake, remove |-> <<>>,
     taken |-> <<>>, handed |-> <<>>, res |-> "close"]

\* branch `control.is_closed`: socket.close() and continue
CloseBranch(c, s) ==
    [ctl |-> c, sock |-> close(s), wake |-> {}, remove |-> <<>>,
     taken |-> <<>>, handed |-> <<>>, res |-> "close"]

\* the receive pump followed by the send pump
PumpBranch(c, s) ==
    UNION { LET ar == AfterRecv(r) IN
            { LET as == AfterSend(t) IN
              [ctl |-> as.ctl, sock |-> t.sock,
               wake |-> ar.wake \cup as.wake,
               remove |-> ar.remove \o as.remove,
               taken |-> r.moved, handed |-> t.moved,
               res |-> IF r.err \/ t.err THEN "error" ELSE "pump"] :
              t \in SendPump(ar.ctl, r.sock) } :
            r \in RecvPump(c, s) }

\* the body of `for (socket_handle, control) in sockets.iter()`
PumpBody(c, s) ==
    IF ~is_open(s) \/ s.state = "Closed" THEN {ClosedBranch(c, s)}
    ELSE IF c.is_closed THEN {CloseBranch(c, s)}
    ELSE PumpBranch(c, s)
\* the removal loop without iface.remove_socket
ApplyRemovals_maponly(rem, socks, ifs) ==
    [sockets |-> socks \ {rem[i] : i \in DOMAIN rem}, iface |-> ifs,
     panic |-> FALSE]

\* `for socket_handle in sockets_to_remove`: sockets.remove ignores a missing
\* key, iface.remove_socket panics on a handle that is not registered
RECURSIVE ApplyRemovals(_, _, _)
ApplyRemovals(rem, socks, ifs) ==
    IF rem = <<>> THEN [sockets |-> socks, iface |-> ifs, panic |-> FALSE]
    ELSE IF Head(rem) \notin ifs
    THEN [sockets |-> socks \ {Head(rem)}, iface |-> ifs, panic |-> TRUE]
    ELSE ApplyRemovals(Tail(rem), socks \ {Head(rem)}, ifs \ {Head(rem)})

UserVars == <<conn, rd, wr, accepted, returned>>

\* a manager that keeps its lock while it waits in select!
ManagerUnlocked_across_wait == mgr_pc \notin {"run", "wait"}

\* the manager lock is free
ManagerUnlocked == mgr_pc # "run"

\* TcpTun::handle_packet on a SYN: TcpConnection::new registers the socket
\* with the stack and the control block with the manager
HandlePacket ==
    /\ conn = "none"
    /\ ManagerUnlocked
    /\ conn' = "open"
    /\ control' = NewControl
    /\ sock' = NewSocket
    /\ sockets' = sockets \cup {H}
    /\ iface_sockets' = iface_sockets \cup {H}
    /\ event' = Ev("new", 0, "ok", 0)
    /\ UNCHANGED <<notified, mgr_pc, sockets_to_remove, closed_seen, rd, wr,
                   accepted, handed, taken, returned, in_cnt>>
    /\ UNCHANGED udp_vars

\* TcpTun::drive_interface_state: queue the frame, notify the manager
DriveInterfaceState ==
    /\ notified' = TRUE
    /\ event' = Ev("drive", 0, "ok", 0)
    /\ UNCHANGED <<control, MgrVars, UserVars, handed, taken>>
    /\ UNCHANGED udp_vars

\* the spawned manager task enters its first iteration
MgrStart ==
    /\ mgr_pc = "start"
    /\ mgr_pc' = "run"
    /\ event' = Ev("mgr_start", 0, "ok", 0)
    /\ UNCHANGED <<control, sockets, iface_sockets, sock, notified,
                   sockets_to_remove, closed_seen, in_cnt, UserVars, handed, taken>>
    /\ UNCHANGED udp_vars

\* a wait whose notification arm leaves the permit in place
MgrWake_keep_permit ==
    /\ mgr_pc = "wait"
    /\ mgr_pc' = "run"
    /\ notified' = notified
    /\ \/ /\ notified
          /\ event' = Ev("mgr_wake", 0, "notified", 0)
       \/ event' = Ev("mgr_wake", 0, "timer", 0)
    /\ UNCHANGED <<control, sockets, iface_sockets, sock,
                   sockets_to_remove, closed_seen, in_cnt, UserVars, handed, taken>>
    /\ UNCHANGED udp_vars

\* tokio::select! of the manager: the notification arm consumes the permit,
\* the sleep arm leaves it; the next iteration begins
MgrWake ==
    /\ mgr_pc = "wait"
    /\ mgr_pc' = "run"
    /\ \/ /\ notified
          /\ notified' = FALSE
          /\ event' = Ev("mgr_wake", 0, "notified", 0)
       \/ /\ notified' = notified
          /\ event' = Ev("mgr_wake", 0, "timer", 0)
    /\ UNCHANGED <<control, sockets, iface_sockets, sock,
                   sockets_to_remove, closed_seen, in_cnt, UserVars, handed, taken>>
    /\ UNCHANGED udp_vars

\* one iteration under the manager lock: iface.poll, the loop over the
\* sockets map with the control block locked, the removals, poll_delay
Iterate(polls) ==
    /\ mgr_pc = "run"
    /\ closed_seen' = control.is_closed
    /\ IF H \in sockets
       THEN \E p \in polls :
            \E o \in PumpBody(control, p.sock) :
              LET r == ApplyRemovals(o.remove, sockets, iface_sockets) IN
              /\ in_cnt' = p.cnt
              /\ control' = o.ctl
              /\ sock' = o.sock
              /\ rd' = Woken(rd, o.wake)
              /\ wr' = Woken(wr, o.wake)
              /\ sockets_to_remove' = o.remove
              /\ taken' = taken \o o.taken
              /\ handed' = handed \o o.handed
              /\ sockets' = r.sockets
              /\ iface_sockets' = r.iface
              /\ mgr_pc' = IF r.panic THEN "panicked" ELSE "wait"
              /\ event' = Ev("mgr_iterate", 0, o.res, 0)
       ELSE /\ sockets_to_remove' = <<>>
            /\ mgr_pc' = "wait"
            /\ event' = Ev("mgr_iterate", 0, "none", 0)
            /\ UNCHANGED <<control, sock, rd, wr, taken, handed, in_cnt,
                           sockets, iface_sockets>>
    /\ UNCHANGED <<notified, conn, accepted, returned>>
    /\ UNCHANGED udp_vars

MgrIterate == Iterate(PollOutcomes(sock, in_cnt))

Manager == MgrStart \/ MgrWake \/ MgrIterate

TcpInit ==
    /\ control = NewControl
    /\ sockets = {}
    /\ iface_sockets = {}
    /\ sock = NewSocket
    /\ notified = FALSE
    /\ mgr_pc = "start"
    /\ sockets_to_remove = <<>>
    /\ closed_seen = FALSE
    /\ conn = "none"
    /\ rd = IdleOp
    /\ wr = IdleOp
    /\ event = Ev("init", 0, "ok", 0)
    /\ accepted = <<>>
    /\ handed = <<>>
    /\ taken = <<>>
    /\ returned = <<>>
    /\ in_cnt = 0

\* before UdpTunnel::new
UdpInit ==
    /\ tunnel = "none"
    /\ capacity = None
    /\ assoc_map = <<>>
    /\ assocs = <<>>
    /\ keepalive = <<>>
    /\ cleanup_timer = 0
    /\ counts = [datagrams |-> 0]
    /\ uevent = [op |-> "init"]

Init == TcpInit /\ UdpInit

Next ==
    \/ HandlePacket
    \/ DriveInterfaceState
    \/ Read
    \/ Write
    \/ Flush
    \/ Shutdown
    \/ DropConnection
    \/ MgrStart
    \/ MgrWake
    \/ MgrIterate

Spec == Init /\ [][Next]_vars

\* ------------------------------------------------------------ fairness
\* a suspended write or shutdown whose waker was woken is polled again
RepollWrite == wr.st = "pending_write" /\ wr.woken /\ Write

RepollShutdown == wr.st = "pending_shutdown" /\ wr.woken /\ Shutdown

Repoll == RepollWrite \/ RepollShutdown

\* polls in which no byte arrives from the peer
QuietPolls == {p \in PollOutcomes(sock, in_cnt) : p.cnt = in_cnt}

\* a manager iteration while the peer is silent
MgrIterateQuiet == Iterate(QuietPolls)

\* the stack makes progress in a poll: the handshake or the FIN exchange
\* completes and everything in tx is transmitted
StackProgress ==
    Iterate({p \in QuietPolls :
                p.sock.state \in {"Established", "Closed"} /\ p.sock.tx = <<>>})

\* the same program with a peer that sends no data
NextQuiet ==
    \/ HandlePacket
    \/ DriveInterfaceState
    \/ Read
    \/ Write
    \/ Flush
    \/ Shutdown
    \/ DropConnection
    \/ MgrStart
    \/ MgrWake
    \/ MgrIterateQuiet

\* the send direction under fair scheduling: the manager task leaves its
\* wait (the sleep arm always fires), woken user tasks are polled again, and
\* the stack progresses
FairSpec ==
    /\ Init /\ [][NextQuiet]_vars
    /\ WF_vars(MgrStart \/ MgrWake)
    /\ WF_vars(Repoll)
    /\ SF_vars(StackProgress)

\* ============================================================ UDP tunnel
\* client addresses datagrams arrive from
PeerAddrs == {"A", "B"}

\* number of associations created in total: as many as there are clients
MaxAssoc == Cardinality(PeerAddrs)

\* the capacity argument of UdpTunnel::new: None, or Some(1)
Capacities == {None, 1}

\* ------------------------------------------- LruCache<SocketAddr, _>
\* entries are kept least recently used first; age is the time since the
\* entry was inserted or last touched
Entry(k, v) == [key |-> k, value |-> v, age |-> 0]

Expired(e) == e.age >= TTL

Keys(m) == {m[i].key : i \in DOMAIN m}

Lookup(m, k) == m[CHOOSE i \in DOMAIN m : m[i].key = k].value

Without(m, k) == SelectSeq(m, LAMBDA e : e.key # k)

\* LruCache::remove_expired: the entries that stay, and the values dropped
remove_expired(m) == SelectSeq(m, LAMBDA e : ~Expired(e))

expired_values(m) == {m[i].value : i \in {j \in DOMAIN m : Expired(m[j])}}

\* LruCache::get: removes the expired entries, then makes the entry of k the
\* most recent and refreshes its time
lru_get(m, k) ==
    LET live == remove_expired(m) IN
    IF k \in Keys(live)
    THEN [map |-> Append(Without(live, k), Entry(k, Lookup(live, k))),
          value |-> Lookup(live, k), dropped |-> expired_values(m)]
    ELSE [map |-> live, value |-> None, dropped |-> expired_values(m)]

\* LruCache::insert: removes the expired entries, replaces the entry of k or
\* evicts the least recent entry of a full cache, and appends the new entry
lru_insert(m, k, v, cap) ==
    LET live == remove_expired(m)
        old == IF k \in Keys(live) THEN {Lookup(live, k)} ELSE {}
        rest == Without(live, k)
        evict == cap # None /\ k \notin Keys(live) /\ Len(rest) >= cap
    IN  [map |-> Append(IF evict THEN Tail(rest) ELSE rest, Entry(k, v)),
         dropped |-> expired_values(m) \cup old
                        \cup (IF evict THEN {Head(rest).value} ELSE {})]

\* iter that removes nothing
lru_iter_keep(m) == [map |-> m, dropped |-> {}]

\* LruCache::iter, dropped without being traversed: removes the expired
\* entries
lru_iter(m) == [map |-> remove_expired(m), dropped |-> expired_values(m)]

\* ---------------------------------------------------- UdpAssociation
\* UdpAssociation::new: the channel and the spawned worker (a task spawned
\* on a runtime that is shutting down is dropped at once, receiver included)
NewAssociation(peer, running) ==
    [peer_addr |-> peer, queue |-> <<>>, proxied_socket |-> FALSE,
     pc |-> IF running THEN "select" ELSE "aborted",
     admitted |-> <<>>, dispatched |-> <<>>]

\* the worker task is gone: its receiver, the queued payloads and the
\* proxied socket are dropped with it
Aborted(a) ==
    [a EXCEPT !.pc = "aborted", !.queue = <<>>, !.proxied_socket = FALSE,
              !.admitted = <<>>, !.dispatched = <<>>]

\* Drop for UdpAssociation, for every association in ids
DropAssociations(as, ids) ==
    [i \in DOMAIN as |-> IF i \in ids THEN Aborted(as[i]) ELSE as[i]]

\* try_send that blocks nothing and overwrites the newest queued payload
try_send_overwrite(a, data) ==
    IF a.pc = "aborted" THEN [assoc |-> a, res |-> "full"]
    ELSE IF Len(a.queue) >= QueueCap
    THEN [assoc |-> [a EXCEPT !.queue = Append(Take(@, Len(@) - 1), data),
                              !.admitted = Append(@, data)],
          res |-> "ok"]
    ELSE [assoc |-> [a EXCEPT !.queue = Append(@, data),
                              !.admitted = Append(@, data)],
          res |-> "ok"]

\* UdpAssociation::try_send: mpsc::Sender::try_send fails when the queue is
\* full or the receiver is gone
try_send(a, data) ==
    IF a.pc = "aborted" \/ Len(a.queue) >= QueueCap
    THEN [assoc |-> a, res |-> "full"]
    ELSE [assoc |-> [a EXCEPT !.queue = Append(@, data),
                              !.admitted = Append(@, data)],
          res |-> "ok"]

\* send_packet that inserts the new association before the first try_send
send_packet_insert_first(m, as, peer, data, cap, running) ==
    LET g == lru_get(m, peer)
        as1 == DropAssociations(as, g.dropped)
    IN  IF g.value # None
        THEN LET r == try_send(as1[g.value], data) IN
             [map |-> g.map, assocs |-> [as1 EXCEPT ![g.value] = r.assoc],
              id |-> g.value, created |-> FALSE, res |-> r.res]
        ELSE LET id == Len(as) + 1
                 r == try_send(NewAssociation(peer, running), data)
                 ins == lru_insert(g.map, peer, id, cap)
             IN  [map |-> ins.map,
                  assocs |-> DropAssociations(Append(as1, r.assoc), ins.dropped),
                  id |-> id, created |-> TRUE, res |-> r.res]

\* UdpTunnel::send_packet under the assoc_map lock
send_packet(m, as, peer, data, cap, running) ==
    LET g == lru_get(m, peer)
        as1 == DropAssociations(as, g.dropped)
    IN  IF g.value # None
        THEN LET r == try_send(as1[g.value], data) IN
             [map |-> g.map, assocs |-> [as1 EXCEPT ![g.value] = r.assoc],
              id |-> g.value, created |-> FALSE, res |-> r.res]
        ELSE LET id == Len(as) + 1
                 r == try_send(NewAssociation(peer, running), data)
                 ins == lru_insert(g.map, peer, id, cap)
             IN  IF r.res = "ok"
                 THEN [map |-> ins.map,
                       assocs |-> DropAssociations(Append(as1, r.assoc), ins.dropped),
                       id |-> id, created |-> TRUE, res |-> "ok"]
                 ELSE [map |-> g.map,
                       assocs |-> DropAssociations(Append(as1, r.assoc), {id}),
                       id |-> id, created |-> TRUE, res |-> r.res]

\* UdpTunnel::new
NewTunnel ==
    /\ tunnel = "none"
    /\ tunnel' = "running"
    /\ \E cap \in Capacities : capacity' = cap
    /\ uevent' = [op |-> "new"]
    /\ UNCHANGED <<assoc_map, assocs, keepalive, cleanup_timer, counts>>
    /\ UNCHANGED tcp_vars

\* one turn of the loop of UdpTunnel::run: recv_from, then send_packet
SendPacket ==
    /\ tunnel \in {"running", "shutdown"}
    /\ counts.datagrams < MaxDatagrams
    /\ \E peer \in PeerAddrs :
         LET data == counts.datagrams + 1
             r == send_packet(assoc_map, assocs, peer, data, capacity,
                              tunnel = "running")
         IN  /\ Len(r.assocs) <= MaxAssoc
             /\ assoc_map' = r.map
             /\ assocs' = r.assocs
             /\ uevent' = [op |-> "send_packet", peer |-> peer, id |-> r.id,
                           created |-> r.created, res |-> r.res, data |-> data]
    /\ counts' = [counts EXCEPT !.datagrams = @ + 1]
    /\ UNCHANGED <<tunnel, capacity, keepalive, cleanup_timer>>
    /\ UNCHANGED tcp_vars

\* ------------------------------------------- UdpAssociationContext
\* recv that hands out the newest queued payload
recv_newest(q) == [data |-> q[Len(q)], queue |-> Take(q, Len(q) - 1)]

\* mpsc::Receiver::recv on a non-empty queue: the oldest payload
recv(q) == [data |-> Head(q), queue |-> Tail(q)]

\* dispatch_received_proxied_packet that keeps the socket after a failed send
DispatchOutcomes_keep_socket(a) ==
    (IF a.proxied_socket THEN {}
     ELSE {[proxied_socket |-> FALSE, res |-> "connect_failed"]})
    \cup {[proxied_socket |-> TRUE, res |-> "ok"],
          [proxied_socket |-> TRUE, res |-> "send_failed"]}

\* what dispatch_received_proxied_packet can leave in proxied_socket, with
\* its result: the connect fails, the send succeeds, the send fails
DispatchOutcomes(a) ==
    (IF a.proxied_socket THEN {}
     ELSE {[proxied_socket |-> FALSE, res |-> "connect_failed"]})
    \cup {[proxied_socket |-> TRUE, res |-> "ok"],
          [proxied_socket |-> FALSE, res |-> "send_failed"]}

\* the receiver.recv() arm of dispatch_packet: dispatch_received_packet
WorkerDispatch(id) ==
    LET a == assocs[id] IN
    /\ a.pc = "select"
    /\ a.queue # <<>>
    /\ \E o \in DispatchOutcomes(a) :
         LET r == recv(a.queue) IN
         /\ assocs' = [assocs EXCEPT ![id] =
                          [a EXCEPT !.queue = r.queue,
                                    !.dispatched = Append(@, r.data),
                                    !.proxied_socket = o.proxied_socket]]
         /\ uevent' = [op |-> "dispatch", id |-> id, data |-> r.data, res |-> o.res]
    /\ UNCHANGED <<tunnel, capacity, assoc_map, keepalive, cleanup_timer, counts>>
    /\ UNCHANGED tcp_vars

\* the receive_from_proxied_opt arm of dispatch_packet: a datagram from
\* upstream, or a socket error that resets proxied_socket
UpstreamRecv(id) ==
    LET a == assocs[id] IN
    /\ a.pc = "select"
    /\ a.proxied_socket
    /\ \/ /\ assocs' = [assocs EXCEPT ![id].pc = "keepalive"]
          /\ uevent' = [op |-> "upstream", id |-> id, res |-> "ok"]
       \/ /\ assocs' = [assocs EXCEPT ![id].proxied_socket = FALSE]
          /\ uevent' = [op |-> "upstream", id |-> id, res |-> "error"]
    /\ UNCHANGED <<tunnel, capacity, assoc_map, keepalive, cleanup_timer, counts>>
    /\ UNCHANGED tcp_vars

\* send_timeout that gives up the datagram with the keep-alive
respond_after_timeout_drop(res) == IF res = "ok" THEN "respond" ELSE "select"

\* where send_received_respond_packet goes after send_timeout returned res
respond_after(res) == "respond"

\* mpsc::Sender::send_timeout(v, 1 s): v is queued as soon as the channel has
\* room; a channel that stays full for the second times the offer out
send_timeout(ch, v) ==
    IF Len(ch) < KeepaliveCap
    THEN [ch |-> Append(ch, v), res |-> "ok"]
    ELSE [ch |-> ch, res |-> "timeout"]

\* send_received_respond_packet, first half: the keep-alive offer
KeepaliveSend(id) ==
    LET a == assocs[id]
        r == send_timeout(keepalive, a.peer_addr)
    IN  /\ a.pc = "keepalive"
        /\ keepalive' = r.ch
        /\ assocs' = [assocs EXCEPT ![id].pc = respond_after(r.res)]
        /\ uevent' = [op |-> "keepalive_send", id |-> id,
                      peer |-> a.peer_addr, res |-> r.res]
        /\ UNCHANGED <<tunnel, capacity, assoc_map, cleanup_timer, counts>>
        /\ UNCHANGED tcp_vars

\* send_to addressed to the most recently used client
respond_to_recent(a, m) == IF m = <<>> THEN a.peer_addr ELSE m[Len(m)].key

\* the address inbound.send_to is given
respond_to(a, m) == a.peer_addr

\* send_received_respond_packet, second half: inbound.send_to(peer_addr)
Respond(id) ==
    LET a == assocs[id] IN
    /\ a.pc = "respond"
    /\ assocs' = [assocs EXCEPT ![id].pc = "select"]
    /\ \E res \in {"ok", "error"} :
         uevent' = [op |-> "respond", id |-> id,
                    to |-> respond_to(a, assoc_map), res |-> res]
    /\ UNCHANGED <<tunnel, capacity, assoc_map, keepalive, cleanup_timer, counts>>
    /\ UNCHANGED tcp_vars

\* the keep-alive task: keepalive_rx.recv(), then assoc_map.get(&peer_addr)
KeepaliveHandle ==
    /\ tunnel = "running"
    /\ keepalive # <<>>
    /\ LET g == lru_get(assoc_map, Head(keepalive)) IN
         /\ assoc_map' = g.map
         /\ assocs' = DropAssociations(assocs, g.dropped)
         /\ uevent' = [op |-> "keepalive", peer |-> Head(keepalive),
                       id |-> g.value]
    /\ keepalive' = Tail(keepalive)
    /\ UNCHANGED <<tunnel, capacity, cleanup_timer, counts>>
    /\ UNCHANGED tcp_vars

\* the cleanup task after time::sleep(time_to_live): assoc_map.iter()
Cleanup ==
    /\ tunnel = "running"
    /\ cleanup_timer = TTL
    /\ LET r == lru_iter(assoc_map) IN
         /\ assoc_map' = r.map
         /\ assocs' = DropAssociations(assocs, r.dropped)
         /\ uevent' = [op |-> "cleanup", dropped |-> r.dropped]
    /\ cleanup_timer' = 0
    /\ UNCHANGED <<tunnel, capacity, keepalive, counts>>
    /\ UNCHANGED tcp_vars

\* time passes: every entry ages (ages past TTL are not told apart) and the
\* cleanup task's sleep advances
Tick ==
    /\ tunnel = "running"
    /\ assoc_map' = [i \in DOMAIN assoc_map |->
                        [assoc_map[i] EXCEPT !.age = Min(TTL, @ + 1)]]
    /\ cleanup_timer' = Min(TTL, cleanup_timer + 1)
    /\ uevent' = [op |-> "tick"]
    /\ UNCHANGED <<tunnel, capacity, assocs, keepalive, counts>>
    /\ UNCHANGED tcp_vars

\* the tokio runtime shuts down: every spawned task is cancelled
RuntimeShutdown ==
    /\ tunnel = "running"
    /\ tunnel' = "shutdown"
    /\ assocs' = DropAssociations(assocs, DOMAIN assocs)
    /\ uevent' = [op |-> "shutdown"]
    /\ UNCHANGED <<capacity, assoc_map, keepalive, cleanup_timer, counts>>
    /\ UNCHANGED tcp_vars

UdpNext ==
    \/ NewTunnel
    \/ SendPacket
    \/ \E id \in DOMAIN assocs : WorkerDispatch(id)
    \/ \E id \in DOMAIN assocs : UpstreamRecv(id)
    \/ \E id \in DOMAIN assocs : KeepaliveSend(id)
    \/ \E id \in DOMAIN assocs : Respond(id)
    \/ KeepaliveHandle
    \/ Cleanup
    \/ Tick
    \/ RuntimeShutdown

UdpSpec == Init /\ [][UdpNext]_vars

\* ================================================================ claims

\* C1: the bytes the manager hands to the stack are a prefix of the bytes
\* accepted by write, and the bytes returned by read are a prefix of the
\* bytes the manager took from the stack (same order, none duplicated or
\* skipped).
C1_FifoOrder ==
    /\ IsPrefix(handed, accepted)
    /\ IsPrefix(returned, taken)

C1_Witness ==
    /\ handed = <<1, 2, 3>>
    /\ returned = <<1, 2>>

\* C2: is_closed is monotonic: no step takes a control block whose
\* is_closed is true to one whose is_closed is false.
C2_ClosedMonotonic == [][control.is_closed => control'.is_closed]_vars

C2_Witness ==
    /\ control.is_closed
    /\ closed_seen
    /\ event.op = "mgr_iterate"
    /\ event.res = "closed"

\* C3: when is_closed is true, read completes at once with EOF (zero bytes)
\* and write fails at once with broken pipe; neither changes the control
\* block (buffers and wakers), wakes a waker or notifies the manager.
C3_ClosedOpsNoEffect ==
    [][control.is_closed =>
        /\ event'.op = "read" =>
             /\ event'.res = "eof" /\ event'.n = 0
             /\ rd'.st = "idle"
             /\ UNCHANGED <<control, notified, wr, returned>>
        /\ event'.op = "write" =>
             /\ event'.res = "broken_pipe" /\ event'.n = 0
             /\ wr'.st # "pending_write"
             /\ UNCHANGED <<control, notified, rd, accepted>>]_vars

C3_Witness ==
    /\ control.is_closed
    /\ event.op = "write"
    /\ event.res = "broken_pipe"
    /\ control.send_buffer # <<>>
    /\ control.recv_buffer # <<>>

\* C4: every byte the manager moved into recv_buffer has been returned by
\* some read when read reports EOF.
C4_NoInboundLoss ==
    (event.op = "read" /\ event.res = "eof") => returned = taken

\* C5: every byte accepted by write before shutdown has been moved to the
\* stack socket when the manager asks the stack to close that (established)
\* socket after the shutdown.
C5_ShutdownDrains ==
    (/\ event.op = "mgr_iterate" /\ event.res = "close"
     /\ sock.state = "FinSent"
     /\ wr.st \in {"pending_shutdown", "shut"}) => handed = accepted
\* C6: a write into a buffer that is not full accepts exactly
\* min(payload, free space) bytes and appends them; a write into a full
\* buffer suspends with its waker in send_waker, without error and without
\* changing the buffer; no accepted byte is discarded (accepted bytes are
\* those handed to the stack followed by send_buffer); when the manager moves
\* bytes out it takes and wakes send_waker; and under fair scheduling a
\* suspended write is resumed and send_buffer is drained again and again, so
\* that every accepted byte is handed to the stack, unless the connection
\* closes.
C6_WriteStep ==
    (event'.op = "write" /\ ~control.is_closed) =>
        LET free == SendCap - Len(control.send_buffer)
            n == Min(event'.arg, free)
            new == [i \in 1..n |-> Len(accepted) + i]
        IN  IF free = 0
            THEN /\ event'.res = "pending"
                 /\ control'.send_waker # None
                 /\ wr' = [st |-> "pending_write", waker |-> control'.send_waker,
                           woken |-> FALSE]
                 /\ control'.send_buffer = control.send_buffer
                 /\ accepted' = accepted
            ELSE /\ event'.res = "ok"
                 /\ event'.n = n
                 /\ control'.send_buffer = control.send_buffer \o new
                 /\ accepted' = accepted \o new

C6_DrainStep ==
    handed' # handed =>
        /\ control'.send_waker = None
        /\ (wr.st = "pending_write" => wr'.woken)

C6_Backpressure ==
    /\ [][C6_WriteStep /\ C6_DrainStep]_vars
    /\ [](accepted = handed \o control.send_buffer)
    /\ [](wr.st = "pending_write" =>
            \/ wr.woken
            \/ control.send_waker = wr.waker /\ Len(control.send_buffer) = SendCap)
    /\ (wr.st = "pending_write") ~> (wr.st # "pending_write")
    /\ []<>(control.send_buffer = <<>> \/ control.is_closed)

C6_Witness ==
    /\ event.op = "write"
    /\ event.res = "pending"
    /\ Len(accepted) = SendCap
    /\ handed = <<>>
    /\ ~control.is_closed

\* C7: no read or write stays suspended and unwoken while its buffer
\* condition holds (recv_buffer non-empty for read, send_buffer not full for
\* write), and at the end of a manager iteration that found is_closed true on
\* an established connection no read or write is left suspended and unwoken.
C7_NoStalledWakeups ==
    /\ (rd.st = "pending" /\ control.recv_buffer # <<>>) => rd.woken
    /\ (wr.st = "pending_write" /\ Len(control.send_buffer) < SendCap) => wr.woken
    /\ (mgr_pc = "wait" /\ closed_seen /\ sock.state = "FinSent") =>
         /\ rd.st = "pending" => rd.woken
         /\ wr.st = "pending_write" => wr.woken

\* C8: a shutdown on a closed control block completes at once and changes
\* nothing; otherwise it sets is_closed and suspends on send_waker; the
\* manager iteration that finds the stack socket Closed takes send_waker and
\* wakes the suspended shutdown; and under fair scheduling with a stack that
\* reaches Closed a suspended shutdown completes.
C8_ShutdownStep ==
    event'.op = "shutdown" =>
        IF control.is_closed
        THEN /\ event'.res = "ok"
             /\ wr'.st = "shut"
             /\ control' = control
        ELSE /\ event'.res = "pending"
             /\ control'.is_closed
             /\ control'.send_waker # None
             /\ wr' = [st |-> "pending_shutdown", waker |-> control'.send_waker,
                       woken |-> FALSE]

C8_ClosedStep ==
    (event'.op = "mgr_iterate" /\ event'.res = "closed") =>
        /\ control'.send_waker = None
        /\ (wr.st = "pending_shutdown" => wr'.woken)

C8_ShutdownResolved ==
    /\ [][C8_ShutdownStep /\ C8_ClosedStep]_vars
    /\ (wr.st = "pending_shutdown") ~> (wr.st = "shut" \/ conn = "dropped")

C8_Witness ==
    /\ wr.st = "pending_shutdown"
    /\ wr.woken
    /\ event.op = "mgr_iterate"
    /\ event.res = "closed"

\* C9 (as stated): a live connection (bytes have flowed to the stack) whose
\* handle was dropped before a manager iteration began has no entry in the
\* sockets map when that iteration ends.
C9_RemovedWithinOneIteration ==
    (mgr_pc = "wait" /\ closed_seen /\ conn = "dropped" /\ handed # <<>>) =>
        H \notin sockets

\* C9 (amended): on a closed control block read returns EOF and write returns
\* broken pipe; a manager iteration that finds the control block closed
\* removes the entry (from the map and the stack) only if it finds the stack
\* socket Closed, and otherwise asks the stack to close it and keeps the
\* entry for a later iteration.
C9_IterateStep ==
    (mgr_pc = "run" /\ mgr_pc' # "run" /\ H \in sockets /\ control.is_closed) =>
        IF sock.state # "Listen" /\ sock'.state = "Closed"
        THEN H \notin sockets' /\ H \notin iface_sockets'
        ELSE /\ H \in sockets' /\ H \in iface_sockets'
             /\ sock'.state \in {"FinSent", "Closed"}

C9_TwoPhaseRemoval ==
    [][/\ (control.is_closed /\ event'.op = "read") => event'.res = "eof"
       /\ (control.is_closed /\ event'.op = "write") => event'.res = "broken_pipe"
       /\ C9_IterateStep]_vars

C9_Witness ==
    /\ conn = "dropped"
    /\ closed_seen
    /\ mgr_pc = "wait"
    /\ H \in sockets
    /\ sock.state = "FinSent"

\* C10 (as stated): the bytes resident in the buffers of the flow (the
\* control block's two ring buffers and the stack socket's rx and tx buffer)
\* never exceed send_buffer_size + recv_buffer_size.
C10_ResidentBytes ==
    (H \in sockets /\ H \in iface_sockets) =>
        Len(control.send_buffer) + Len(control.recv_buffer)
            + Len(sock.tx) + Len(sock.rx) <= SendCap + RecvCap

\* C10 (amended): send_buffer and the socket's tx buffer never hold more than
\* send_buffer_size bytes each, recv_buffer and the socket's rx buffer never
\* more than recv_buffer_size bytes each, so the flow never holds more than
\* 2 * (send_buffer_size + recv_buffer_size) bytes.
C10_BoundedBuffers ==
    /\ Len(control.send_buffer) <= SendCap
    /\ Len(control.recv_buffer) <= RecvCap
    /\ Len(sock.tx) <= SendCap
    /\ Len(sock.rx) <= RecvCap
    /\ Len(control.send_buffer) + Len(control.recv_buffer)
           + Len(sock.tx) + Len(sock.rx) <= 2 * (SendCap + RecvCap)

C10_Witness ==
    /\ H \in sockets
    /\ H \in iface_sockets
    /\ Len(sock.tx) = SendCap
    /\ Len(control.recv_buffer) = RecvCap
    /\ control.send_buffer # <<>>
    /\ event.op = "mgr_iterate"
    /\ event.res = "pump"

\* C11 (as stated): a rejected try_send increments a drop counter, so it
\* changes the state kept by the tunnel or the association (the recency
\* order and the times of the map, which get refreshes, set aside).
C11_DropCounted ==
    [][(uevent'.op = "send_packet" /\ uevent'.res = "full") =>
          <<tunnel, capacity, assocs, keepalive>>' #
              <<tunnel, capacity, assocs, keepalive>>]_vars

\* C11 (amended): a queue never holds more than its capacity; try_send on
\* an association whose queue has room appends the payload and succeeds; on
\* a full queue it returns the channel-full error at once and leaves the
\* association, its queue included, exactly as it was (nothing is counted).
C11_TrySendStep ==
    (uevent'.op = "send_packet" /\ ~uevent'.created) =>
        LET id == uevent'.id
            a == assocs[id]
        IN  IF a.pc # "aborted" /\ Len(a.queue) < QueueCap
            THEN /\ uevent'.res = "ok"
                 /\ assocs'[id].queue = Append(a.queue, uevent'.data)
            ELSE /\ uevent'.res = "full"
                 /\ assocs'[id] = a

C11_BoundedQueue ==
    /\ [](\A id \in DOMAIN assocs : Len(assocs[id].queue) <= QueueCap)
    /\ [][C11_TrySendStep]_vars

C11_Witness ==
    /\ tunnel = "running"
    /\ uevent.op = "send_packet"
    /\ uevent.res = "full"
    /\ ~uevent.created
    /\ assocs[uevent.id].pc = "select"
    /\ assocs[uevent.id].dispatched = <<>>
    /\ Len(assocs[uevent.id].queue) = QueueCap

\* C12: while an association lives, the payloads its worker has dispatched,
\* followed by the payloads still queued, are exactly the payloads try_send
\* accepted, in the order it accepted them; the worker dispatches the oldest
\* queued payload; a rejected payload enters no queue; and the worker's
\* upstream arm (receive, keep-alive, respond) leaves the queue and the
\* dispatched payloads as they are.
C12_SendStep ==
    uevent'.op = "send_packet" =>
        IF uevent'.res = "ok"
        THEN assocs'[uevent'.id].admitted =
                 Append(IF uevent'.created THEN <<>>
                        ELSE assocs[uevent'.id].admitted, uevent'.data)
        ELSE \A id \in DOMAIN assocs' :
                 \A i \in DOMAIN assocs'[id].admitted :
                     assocs'[id].admitted[i] # uevent'.data

C12_DispatchStep ==
    uevent'.op = "dispatch" =>
        /\ uevent'.data = Head(assocs[uevent'.id].queue)
        /\ assocs'[uevent'.id].dispatched =
               Append(assocs[uevent'.id].dispatched, uevent'.data)
        /\ assocs'[uevent'.id].admitted = assocs[uevent'.id].admitted

C12_UpstreamStep ==
    uevent'.op \in {"upstream", "keepalive_send", "respond"} =>
        /\ assocs'[uevent'.id].queue = assocs[uevent'.id].queue
        /\ assocs'[uevent'.id].dispatched = assocs[uevent'.id].dispatched
        /\ assocs'[uevent'.id].admitted = assocs[uevent'.id].admitted

C12_AssociationFifo ==
    /\ [](\A id \in DOMAIN assocs :
            assocs[id].admitted = assocs[id].dispatched \o assocs[id].queue)
    /\ [][C12_SendStep /\ C12_DispatchStep /\ C12_UpstreamStep]_vars

C12_Witness ==
    /\ tunnel = "running"
    /\ Len(assocs) = 1
    /\ counts.datagrams = MaxDatagrams
    /\ keepalive # <<>>
    /\ Len(assocs[1].admitted) = QueueCap
    /\ assocs[1].dispatched = assocs[1].admitted
    /\ uevent.op = "dispatch"

\* C13: when send_packet creates an association and the first try_send on it
\* fails, the new association is nevertheless in the association map under
\* the peer's address when send_packet returns.
C13_InstalledAfterFailedSend ==
    (uevent.op = "send_packet" /\ uevent.created /\ uevent.res = "full") =>
        /\ uevent.peer \in Keys(assoc_map)
        /\ Lookup(assoc_map, uevent.peer) = uevent.id

\* C13 (amended): when send_packet creates an association, it installs it
\* in the map under the peer's address only if the first try_send succeeded;
\* if that try_send fails the packet is dropped with the error, the new
\* association is dropped (its worker aborted) and no entry is installed for
\* the peer, so the next datagram from that peer creates another one.
C13_FailedAssociationDropped ==
    /\ [](uevent.op = "send_packet" /\ uevent.created =>
            IF uevent.res = "ok"
            THEN /\ uevent.peer \in Keys(assoc_map)
                 /\ Lookup(assoc_map, uevent.peer) = uevent.id
            ELSE /\ uevent.peer \notin Keys(assoc_map)
                 /\ assocs[uevent.id].pc = "aborted")
    /\ [][uevent'.op = "send_packet" =>
            (uevent'.created <=>
                uevent'.peer \notin Keys(remove_expired(assoc_map)))]_vars

C13_Witness ==
    /\ uevent.op = "send_packet"
    /\ uevent.created
    /\ uevent.res = "full"
    /\ uevent.id = 2
    /\ assocs[1].peer_addr = uevent.peer
    /\ assocs[2].peer_addr = uevent.peer
    /\ assoc_map = <<>>

\* C14: a cleanup tick removes exactly the entries whose last access (a client
\* datagram or a keep-alive of that peer) is a full TTL old, whether or not
\* anything else touched the map, and leaves every younger entry as it is;
\* the association of a removed entry is dropped and its worker aborted; an
\* aborted worker takes no further step; and the time since an entry's last
\* access restarts only on a client datagram or a keep-alive of its peer.
C14_CleanupStep ==
    uevent'.op = "cleanup" =>
        \A i \in DOMAIN assoc_map :
            LET e == assoc_map[i] IN
            IF e.age >= TTL
            THEN /\ \A j \in DOMAIN assoc_map' : assoc_map'[j].key # e.key
                 /\ assocs'[e.value].pc = "aborted"
            ELSE /\ \E j \in DOMAIN assoc_map' : assoc_map'[j] = e
                 /\ assocs'[e.value] = assocs[e.value]

C14_AbortedStays ==
    \A id \in DOMAIN assocs :
        assocs[id].pc = "aborted" => assocs'[id] = assocs[id]

C14_RefreshStep ==
    \A i \in DOMAIN assoc_map, j \in DOMAIN assoc_map' :
        (assoc_map'[j].value = assoc_map[i].value
            /\ assoc_map'[j].age < assoc_map[i].age) =>
                /\ uevent'.op \in {"send_packet", "keepalive"}
                /\ uevent'.peer = assoc_map[i].key

C14_TtlEviction ==
    /\ [][C14_CleanupStep /\ C14_AbortedStays /\ C14_RefreshStep]_vars
    /\ [](\A i \in DOMAIN assoc_map : assocs[assoc_map[i].value].pc # "aborted"
                                          \/ tunnel = "shutdown")

C14_Witness ==
    /\ uevent.op = "cleanup"
    /\ uevent.dropped # {}
    /\ assoc_map # <<>>
    /\ \A id \in uevent.dropped : assocs[id].pc = "aborted"

\* C15 (as stated): whenever the keep-alive handler takes a peer address off
\* the channel, it touches that peer's map entry: afterwards the peer's entry
\* is the most recent one and its time is fresh (stated for a map without a
\* capacity limit).
C15_KeepaliveRefreshes ==
    (uevent.op = "keepalive" /\ capacity = None) =>
        /\ assoc_map # <<>>
        /\ assoc_map[Len(assoc_map)].key = uevent.peer
        /\ assoc_map[Len(assoc_map)].age = 0

\* C15 (amended): for every datagram from upstream the worker offers its
\* peer address on the keep-alive channel: the offer is queued if the channel
\* has room and times out otherwise, and either way the worker goes on to
\* write the datagram back to its peer, unless its association is evicted
\* (the worker aborted) first; the handler's get of an offered address
\* refreshes the peer's entry and makes it the most recent if the peer still
\* has an unexpired entry, and never changes which association is stored
\* under an address.
C15_OfferStep ==
    uevent'.op = "keepalive_send" =>
        LET a == assocs[uevent'.id] IN
        /\ uevent'.peer = a.peer_addr
        /\ IF Len(keepalive) < KeepaliveCap
           THEN uevent'.res = "ok" /\ keepalive' = Append(keepalive, a.peer_addr)
           ELSE uevent'.res = "timeout" /\ keepalive' = keepalive
        /\ assocs'[uevent'.id].pc = "respond"

C15_RespondStep ==
    \A id \in DOMAIN assocs :
        (assocs[id].pc = "respond" /\ assocs'[id].pc # "respond") =>
            \/ assocs'[id].pc = "aborted"
            \/ /\ uevent'.op = "respond"
               /\ uevent'.id = id
               /\ uevent'.to = assocs[id].peer_addr

C15_HandleStep ==
    uevent'.op = "keepalive" =>
        /\ uevent'.peer = Head(keepalive)
        /\ keepalive' = Tail(keepalive)
        /\ IF \E i \in DOMAIN assoc_map :
                 assoc_map[i].key = uevent'.peer /\ assoc_map[i].age < TTL
           THEN /\ assoc_map'[Len(assoc_map')].key = uevent'.peer
                /\ assoc_map'[Len(assoc_map')].age = 0
           ELSE \A j \in DOMAIN assoc_map' : assoc_map'[j].key # uevent'.peer
        /\ \A j \in DOMAIN assoc_map' : \E i \in DOMAIN assoc_map :
               /\ assoc_map[i].key = assoc_map'[j].key
               /\ assoc_map[i].value = assoc_map'[j].value

C15_KeepaliveOffer ==
    /\ [][C15_OfferStep /\ C15_RespondStep /\ C15_HandleStep]_vars
    /\ [](Len(keepalive) <= KeepaliveCap)

C15_Witness ==
    /\ uevent.op = "keepalive"
    /\ uevent.id # None
    /\ Len(assoc_map) = 2
    /\ assoc_map[2].key = uevent.peer
    /\ assocs[uevent.id].pc = "respond"

\* C16: the association map holds at most one entry per client address, each
\* entry's association was created for that address, and no two live
\* associations serve the same address (so datagrams of A and of B go to
\* distinct associations); a worker writes an upstream datagram only to its
\* own peer_addr; and after send_packet handed a datagram of B to B's
\* association, B's entry is the most recent of the map.
C16_MapInv ==
    /\ \A i, j \in DOMAIN assoc_map :
          assoc_map[i].key = assoc_map[j].key => i = j
    /\ \A i \in DOMAIN assoc_map :
          assocs[assoc_map[i].value].peer_addr = assoc_map[i].key
    /\ \A a, b \in DOMAIN assocs :
          (/\ assocs[a].pc # "aborted" /\ assocs[b].pc # "aborted"
           /\ assocs[a].peer_addr = assocs[b].peer_addr) => a = b
    /\ \A a \in DOMAIN assocs :
          assocs[a].pc # "aborted" =>
              \E i \in DOMAIN assoc_map : assoc_map[i].value = a

C16_RouteStep ==
    (uevent'.op = "send_packet" /\ (uevent'.res = "ok" \/ ~uevent'.created)) =>
        /\ assocs'[uevent'.id].peer_addr = uevent'.peer
        /\ assoc_map'[Len(assoc_map')].key = uevent'.peer
        /\ assoc_map'[Len(assoc_map')].value = uevent'.id
        /\ assoc_map'[Len(assoc_map')].age = 0

C16_RespondOwnPeer ==
    uevent'.op = "respond" => uevent'.to = assocs[uevent'.id].peer_addr

C16_FanOut ==
    /\ []C16_MapInv
    /\ [][C16_RouteStep /\ C16_RespondOwnPeer]_vars

C16_Witness ==
    /\ Len(assoc_map) = 2
    /\ assoc_map[1].key = "A"
    /\ assoc_map[2].key = "B"
    /\ assoc_map[1].value # assoc_map[2].value
    /\ uevent.op = "respond"
    /\ uevent.to = "A"
    /\ uevent.res = "ok"

\* C17: whenever the manager lock is free, the keys of the sockets map are
\* exactly the sockets registered in the stack; a step that changes one of
\* the two sets changes the other in the same way.
C17_MapMatchesStack ==
    /\ [](ManagerUnlocked => sockets = iface_sockets)
    /\ [][/\ sockets' \ sockets = iface_sockets' \ iface_sockets
          /\ sockets \ sockets' = iface_sockets \ iface_sockets']_vars

C17_Witness ==
    /\ conn # "none"
    /\ ManagerUnlocked
    /\ sockets = {}
    /\ iface_sockets = {}
    /\ sockets_to_remove = <<H>>
    /\ event.op = "mgr_iterate"

\* C18: an iteration that finds the control block closed while the stack
\* socket is open and not Closed asks the stack to close the socket and
\* does nothing else: the control block (buffers, wakers) and the suspended
\* operations are as before, no byte is moved and the entry stays in the map
\* and the stack; the entry of a closed control block is removed only by an
\* iteration that finds the stack socket not open or Closed.
C18_CloseStep ==
    (event'.op = "mgr_iterate" /\ event'.res = "close") =>
        /\ control.is_closed
        /\ sock'.state \in {"FinSent", "Closed"}
        /\ UNCHANGED <<control, rd, wr, handed, taken>>
        /\ sockets_to_remove' = <<>>
        /\ H \in sockets' /\ H \in iface_sockets'

C18_RemoveStep ==
    (control.is_closed /\ H \in sockets /\ H \notin sockets') =>
        /\ event'.op = "mgr_iterate"
        /\ event'.res = "closed"

C18_TwoPhaseTeardown ==
    [][/\ C18_CloseStep
       /\ C18_RemoveStep
       /\ (event'.op = "mgr_iterate" /\ control.is_closed /\ H \in sockets) =>
              event'.res \in {"close", "closed"}]_vars

C18_Witness ==
    /\ event.op = "mgr_iterate"
    /\ event.res = "close"
    /\ sock.state = "FinSent"
    /\ control.send_buffer # <<>>
    /\ rd.st = "pending"
    /\ ~rd.woken
    /\ wr.st = "pending_shutdown"
    /\ ~wr.woken
    /\ H \in sockets

\* C19: an iteration that finds the stack socket not open or Closed, or that
\* gets a stack error while pumping, leaves the control block closed with
\* both waker slots empty, has woken every operation suspended on one of the
\* two wakers and has removed the entry from the map and the socket from the
\* stack; a read polled on a closed control block returns EOF and a write
\* returns broken pipe.
C19_CloseAndRemoveStep ==
    (event'.op = "mgr_iterate" /\ event'.res \in {"closed", "error"}) =>
        /\ control'.is_closed
        /\ control'.send_waker = None
        /\ control'.recv_waker = None
        /\ (rd.st = "pending"
              /\ rd.waker \in {control.send_waker, control.recv_waker})
              => rd'.woken
        /\ (wr.st \in {"pending_write", "pending_shutdown"}
              /\ wr.waker \in {control.send_waker, control.recv_waker})
              => wr'.woken
        /\ H \notin sockets'
        /\ H \notin iface_sockets'

C19_StackErrorTeardown ==
    /\ [][C19_CloseAndRemoveStep]_vars
    /\ []((event.op = "read" /\ control.is_closed) => event.res = "eof")
    /\ []((event.op = "write" /\ control.is_closed) => event.res = "broken_pipe")

C19_Witness ==
    /\ event.op = "mgr_iterate"
    /\ event.res = "error"
    /\ rd.st = "pending" /\ rd.woken
    /\ wr.st = "pending_write" /\ wr.woken
    /\ H \notin sockets

\* C20: the manager wakeup is one stored permit: every notification (a read
\* or write that moved bytes, drive_interface_state) leaves the permit set,
\* however many came before it; only the manager's wait consumes it, and
\* consuming it starts one iteration and leaves no permit behind; a wait
\* ended by the timer leaves the permit for the next wait; and a permit
\* present while the manager waits lets the wait end at once.
C20_NotifyStep ==
    \/ event'.op = "drive"
    \/ event'.op \in {"read", "write"} /\ event'.res = "ok"

C20_PermitStep ==
    /\ C20_NotifyStep => notified'
    /\ (~notified /\ notified') => C20_NotifyStep
    /\ (notified /\ ~notified') =>
          /\ event'.op = "mgr_wake" /\ event'.res = "notified"
          /\ mgr_pc = "wait" /\ mgr_pc' = "run"
    /\ (event'.op = "mgr_wake" /\ event'.res = "notified") =>
          notified /\ ~notified'
    /\ (event'.op = "mgr_wake" /\ event'.res = "timer") => notified' = notified
    /\ event'.op = "mgr_iterate" => notified' = notified

C20_CoalescedWakeup ==
    /\ [][C20_PermitStep]_vars
    /\ [](notified \in BOOLEAN)
    /\ []((mgr_pc = "wait" /\ notified) => ENABLED MgrWake)

C20_Witness ==
    /\ mgr_pc = "run"
    /\ notified
    /\ event.op = "write"
    /\ event.res = "ok"
    /\ returned # <<>>
    /\ closed_seen = FALSE

\* C21: dropping the connection handle sets is_closed and nothing else: both
\* waker slots keep their wakers, no operation is woken, the manager is not
\* notified, and the stack socket, the sockets map and the stack's socket
\* set are as before; while the entry of a dropped handle is in the map,
\* an iteration either asks the stack to close the socket (the socket is
\* open: the control block and the entry stay as they are) or, finding the
\* socket Closed, removes the entry from the map and the stack; and under
\* fair scheduling with a stack that reaches Closed the entry of a dropped
\* handle is eventually removed from the map and the stack.
C21_DropStep ==
    event'.op = "drop" =>
        /\ control' = [control EXCEPT !.is_closed = TRUE]
        /\ ~rd'.woken /\ ~wr'.woken
        /\ notified' = notified
        /\ UNCHANGED <<sock, sockets, iface_sockets, sockets_to_remove, mgr_pc>>

C21_IterateStep ==
    (event'.op = "mgr_iterate" /\ conn = "dropped" /\ H \in sockets) =>
        \/ /\ event'.res = "close"
           /\ sock'.state \in {"FinSent", "Closed"}
           /\ control' = control
           /\ H \in sockets' /\ H \in iface_sockets'
        \/ /\ event'.res = "closed"
           /\ sock'.state = "Closed"
           /\ H \notin sockets' /\ H \notin iface_sockets'

C21_DropCleanedUp ==
    /\ [][C21_DropStep /\ C21_IterateStep]_vars
    /\ (conn = "dropped") ~> (H \notin sockets /\ H \notin iface_sockets)

C21_Witness ==
    /\ conn = "dropped"
    /\ wr.st = "idle"
    /\ control.is_closed
    /\ control.send_buffer # <<>>
    /\ sock.state = "Closed"
    /\ H \notin sockets
    /\ H \notin iface_sockets
    /\ event.op = "mgr_iterate"
    /\ event.res = "closed"

\* C22: an association's proxied_socket is None until its worker has
\* dispatched a client payload, and a worker handling an upstream datagram
\* has a socket; the upstream-receive arm fires only while the slot holds a
\* socket; a dispatch takes the oldest payload off the queue whatever its
\* result (a payload whose connect or send failed is not put back); a
\* dispatch with the slot at None may fail to connect, which leaves the slot
\* at None, and otherwise connects, while a dispatch with a socket in the
\* slot does not connect; a successful send leaves a socket in the slot and
\* a failed send or a failed upstream receive resets it to None; and after
\* each of these failures the worker is back at its select loop, the
\* association is not dropped and the association map is as before.
C22_SlotInv ==
    \A id \in DOMAIN assocs :
        /\ assocs[id].dispatched = <<>> => ~assocs[id].proxied_socket
        /\ assocs[id].pc \in {"keepalive", "respond"} => assocs[id].proxied_socket

C22_DispatchStep ==
    uevent'.op = "dispatch" =>
        LET a == assocs[uevent'.id]
            b == assocs'[uevent'.id]
        IN  /\ b.queue = Tail(a.queue)
            /\ uevent'.res \in {"ok", "connect_failed", "send_failed"}
            /\ uevent'.res = "connect_failed" => ~a.proxied_socket
            /\ b.proxied_socket = (uevent'.res = "ok")
            /\ b.pc = "select"
            /\ b.peer_addr = a.peer_addr
            /\ assoc_map' = assoc_map

C22_UpstreamStep ==
    uevent'.op = "upstream" =>
        LET a == assocs[uevent'.id]
            b == assocs'[uevent'.id]
        IN  /\ a.proxied_socket
            /\ b.queue = a.queue
            /\ IF uevent'.res = "error"
               THEN ~b.proxied_socket /\ b.pc = "select"
               ELSE b.proxied_socket /\ b.pc = "keepalive"
            /\ assoc_map' = assoc_map

C22_SlotOnlyByWorker ==
    \A id \in DOMAIN assocs :
        (assocs'[id].proxied_socket # assocs[id].proxied_socket
            /\ assocs'[id].pc # "aborted") =>
                /\ uevent'.op \in {"dispatch", "upstream"}
                /\ uevent'.id = id

C22_ProxiedSocketSlot ==
    /\ []C22_SlotInv
    /\ [][C22_DispatchStep /\ C22_UpstreamStep /\ C22_SlotOnlyByWorker]_vars

C22_Witness ==
    /\ uevent.op = "dispatch"
    /\ uevent.res = "connect_failed"
    /\ Len(assocs[uevent.id].dispatched) = 2
    /\ assocs[uevent.id].queue # <<>>
    /\ assocs[uevent.id].pc = "select"
    /\ ~assocs[uevent.id].proxied_socket
    /\ \E i \in DOMAIN assoc_map : assoc_map[i].value = uevent.id

\* C23: the handles an iteration scheduled for removal are pairwise distinct,
\* and applying them never reaches a handle that an earlier removal of the
\* same iteration already took out of the stack (iface.remove_socket panics
\* on such a handle).
C23_ScheduledOnce ==
    /\ \A i, j \in DOMAIN sockets_to_remove :
          sockets_to_remove[i] = sockets_to_remove[j] => i = j
    /\ mgr_pc # "panicked"

\* C24: read, write, flush, shutdown and drop touch nothing the manager lock
\* guards (the sockets map, the stack's sockets, the stack socket, the
\* removal list, the manager's position); connection creation touches the
\* manager's data only while the manager is not in an iteration; the manager
\* changes a control block only in an iteration, under its own lock, and is
\* out of the iteration (out of both locks) when the iteration ends; and no
\* suspended task holds a lock, so in every reachable state each task that
\* asks for a lock can proceed: a user operation on an open handle whatever
\* the manager and the other operations are doing, a connection creation
\* whenever the manager is not in an iteration, and a manager that is in an
\* iteration or waiting.
C24_UserStep ==
    event'.op \in {"read", "write", "flush", "shutdown", "drop"} =>
        UNCHANGED <<sockets, iface_sockets, sock, sockets_to_remove, mgr_pc>>

C24_NewStep ==
    event'.op = "new" =>
        /\ mgr_pc # "run"
        /\ mgr_pc' = mgr_pc
        /\ control' = NewControl

C24_ManagerStep ==
    event'.op \in {"mgr_start", "mgr_wake", "mgr_iterate", "drive"} =>
        /\ control' # control => (event'.op = "mgr_iterate" /\ mgr_pc = "run")
        /\ event'.op = "mgr_iterate" => mgr_pc' # "run"
        /\ <<sockets, iface_sockets, sock>>' # <<sockets, iface_sockets, sock>>
               => (event'.op = "mgr_iterate" /\ mgr_pc = "run")

C24_CanProceed ==
    /\ conn = "open" =>
          /\ ENABLED Read
          /\ ENABLED Flush
          /\ ENABLED Shutdown
          /\ ENABLED DropConnection
          /\ (wr.st # "pending_shutdown" /\ Len(accepted) < MaxBytes)
                 => ENABLED Write
    /\ (conn = "none" /\ mgr_pc # "run") => ENABLED HandlePacket
    /\ mgr_pc = "run" => ENABLED MgrIterate
    /\ mgr_pc = "wait" => ENABLED MgrWake

C25_ClosedBuffersFrozen ==
    [][/\ control.is_closed =>
            /\ control'.send_buffer = control.send_buffer
            /\ control'.recv_buffer = control.recv_buffer
       /\ (event'.op = "mgr_iterate" /\ Len(sockets_to_remove') > 1) =>
            /\ control'.send_buffer = control.send_buffer
            /\ handed' = handed]_vars

====
